---- MODULE Spec2Model ----
(***************************************************************************)
(* A model of the two scripts of the repository:                           *)
(*   openai_with_google_search.py  the command-line loop (SpecCLI)         *)
(*   prac.py                       the Streamlit chat UI (SpecUI) and its  *)
(*                                 settings sidebar (SpecSettings)         *)
(* A text is a sequence of tokens (characters where the code looks at      *)
(* characters, longer literals elsewhere).  An HTTP call is two steps: the *)
(* request is issued, and later the response is handled.                   *)
(***************************************************************************)
EXTENDS Integers, Sequences, FiniteSets, TLC

VARIABLES
    \* ---- openai_with_google_search.py
    pc,          \* where main() is: "input", "catalog", "chat1", "tool", "chat2", "exited", "crashed"
    user_input,  \* the line read by input()
    tools,       \* chat_with_tools: tools
    message,     \* chat_with_tools: message = response.choices[0].message
    messages,    \* chat_with_tools: messages
    idx,         \* position of the for loop over message.tool_calls
    result,      \* how the last call of chat_with_tools ended
    printed,     \* what main printed for the last turn
    second_response, \* chat_with_tools: second_response.choices[0].message
    chatLog,     \* arguments of the chat-API calls of this turn, in order
    runLog,      \* bodies of the POST /openai/run requests of this turn, in order
    catalogReqs, \* number of GET /openai/tools requests of this turn
    inflight,    \* HTTP requests issued and not yet answered
    lastSidecar, \* the last response of the sidecar to this script
    \* ---- prac.py, chat input
    ui_messages, \* st.session_state.messages
    ui_prompt,   \* the prompt handled by the last script run
    ui_query,    \* queries of the POST /tools/call requests of the last run
    ui_chat,     \* msgs arguments of the chat_message_llm calls of the last run
    ui_response, \* the sidecar's response in the last run
    ui_answer,   \* the chat API's answer in the last run
    \* ---- prac.py, settings sidebar
    session,     \* st.session_state of the session that saves
    environ,     \* os.environ
    entered,     \* the three text_input values of the running save
    savePc,      \* 0: no save running; k: about to run the k-th assignment of lines 76-81
    saves,       \* number of Save clicks so far
    session2,    \* st.session_state of a second browser session
    generations  \* the credential triples that were installed as a whole

cliVars == <<pc, user_input, tools, message, messages, idx, result, printed,
             second_response, chatLog,
             runLog, catalogReqs, inflight, lastSidecar>>
uiVars == <<ui_messages, ui_prompt, ui_query, ui_chat, ui_response, ui_answer>>
settingsVars == <<session, environ, entered, savePc, saves, session2, generations>>
vars == <<cliVars, uiVars, settingsVars>>

(***************************************************************************)
(* Bounds                                                                  *)
(***************************************************************************)
MaxToolCalls == 2
MaxPrompts == 2
MaxSaves == 1

(***************************************************************************)
(* Python values                                                           *)
(***************************************************************************)
None == <<"<None>">>

\* str(x) of a text or of None
Str(x) == IF x = None THEN <<"N", "o", "n", "e">> ELSE x

UpperCase == <<"A","B","C","D","E","F","G","H","I","J","K","L","M",
               "N","O","P","Q","R","S","T","U","V","W","X","Y","Z">>
LowerCase == <<"a","b","c","d","e","f","g","h","i","j","k","l","m",
               "n","o","p","q","r","s","t","u","v","w","x","y","z">>

LowerChar(c) ==
    IF \E i \in 1..26 : UpperCase[i] = c
    THEN LowerCase[CHOOSE i \in 1..26 : UpperCase[i] = c]
    ELSE c

\* str.lower()
Lower(s) == [i \in 1..Len(s) |-> LowerChar(s[i])]

\* str.startswith(p)
StartsWith(s, p) == Len(s) >= Len(p) /\ SubSeq(s, 1, Len(p)) = p

\* s[n:]
SliceFrom(s, n) == SubSeq(s, n + 1, Len(s))

Whitespace == {" ", "\t", "\n"}

RECURSIVE LStrip(_)
LStrip(s) == IF s # <<>> /\ Head(s) \in Whitespace THEN LStrip(Tail(s)) ELSE s

RECURSIVE RStrip(_)
RStrip(s) ==
    IF s # <<>> /\ s[Len(s)] \in Whitespace THEN RStrip(SubSeq(s, 1, Len(s) - 1)) ELSE s

\* str.strip()
Strip(s) == RStrip(LStrip(s))

\* sub in s
Contains(s, sub) ==
    \E i \in 0..(Len(s) - Len(sub)) : SubSeq(s, i + 1, i + Len(sub)) = sub

(***************************************************************************)
(* JSON.  A JSON text is a sequence of lexical tokens; a JSON value is a   *)
(* record tagged by its type.                                              *)
(***************************************************************************)
JNull == [t |-> "null"]
JBool(b) == [t |-> "bool", b |-> b]
JStr(s) == [t |-> "string", s |-> s]
JArr(items) == [t |-> "array", items |-> items]
JObj(members) == [t |-> "object", members |-> members]
Member(k, v) == [k |-> k, v |-> v]

\* the string literals that occur in the texts of the model
StringLiterals == {"query", "q", "result", "r1", "error", "boom", "text", "content",
                   "isError", "name", "google_search"}
Quote(s) == "\"" \o s \o "\""
IsStringToken(tok) == \E s \in StringLiterals : Quote(s) = tok
Unquote(tok) == CHOOSE s \in StringLiterals : Quote(s) = tok

Colons == {":", ": "}
Commas == {",", ", "}

ParseFail == [ok |-> FALSE, value |-> JNull, next |-> 0]
ParseOk(v, n) == [ok |-> TRUE, value |-> v, next |-> n]

RECURSIVE ParseValue(_, _), ParseItems(_, _, _), ParseMembers(_, _, _)

\* the value that starts at token i of t
ParseValue(t, i) ==
    IF i > Len(t) THEN ParseFail
    ELSE IF t[i] = "true" THEN ParseOk(JBool(TRUE), i + 1)
    ELSE IF t[i] = "false" THEN ParseOk(JBool(FALSE), i + 1)
    ELSE IF t[i] = "null" THEN ParseOk(JNull, i + 1)
    ELSE IF IsStringToken(t[i]) THEN ParseOk(JStr(Unquote(t[i])), i + 1)
    ELSE IF t[i] = "[" THEN
        IF i + 1 <= Len(t) /\ t[i + 1] = "]" THEN ParseOk(JArr(<<>>), i + 2)
        ELSE ParseItems(t, i + 1, <<>>)
    ELSE IF t[i] = "{" THEN
        IF i + 1 <= Len(t) /\ t[i + 1] = "}" THEN ParseOk(JObj(<<>>), i + 2)
        ELSE ParseMembers(t, i + 1, <<>>)
    ELSE ParseFail

\* the rest of an array whose items so far are acc
ParseItems(t, i, acc) ==
    LET r == ParseValue(t, i) IN
    IF ~r.ok \/ r.next > Len(t) THEN ParseFail
    ELSE IF t[r.next] = "]" THEN ParseOk(JArr(Append(acc, r.value)), r.next + 1)
    ELSE IF t[r.next] \in Commas THEN ParseItems(t, r.next + 1, Append(acc, r.value))
    ELSE ParseFail

\* the rest of an object whose members so far are acc
ParseMembers(t, i, acc) ==
    IF i + 1 > Len(t) \/ ~IsStringToken(t[i]) \/ t[i + 1] \notin Colons THEN ParseFail
    ELSE
        LET r == ParseValue(t, i + 2) IN
        IF ~r.ok \/ r.next > Len(t) THEN ParseFail
        ELSE
            LET m == Append(acc, Member(Unquote(t[i]), r.value)) IN
            IF t[r.next] = "}" THEN ParseOk(JObj(m), r.next + 1)
            ELSE IF t[r.next] \in Commas THEN ParseMembers(t, r.next + 1, m)
            ELSE ParseFail

\* json.loads(t) and response.json(): ok is FALSE where they raise
JsonLoads(t) ==
    LET r == ParseValue(t, 1) IN
    IF r.ok /\ r.next = Len(t) + 1 THEN [ok |-> TRUE, value |-> r.value]
    ELSE [ok |-> FALSE, value |-> JNull]

RECURSIVE JsonDumps(_), DumpItems(_), DumpMembers(_)

\* json.dumps(v, ensure_ascii=False)
JsonDumps(v) ==
    CASE v.t = "null" -> <<"null">>
      [] v.t = "bool" -> IF v.b THEN <<"true">> ELSE <<"false">>
      [] v.t = "string" -> <<Quote(v.s)>>
      [] v.t = "array" -> <<"[">> \o DumpItems(v.items) \o <<"]">>
      [] v.t = "object" -> <<"{">> \o DumpMembers(v.members) \o <<"}">>

DumpItems(items) ==
    IF items = <<>> THEN <<>>
    ELSE IF Len(items) = 1 THEN JsonDumps(items[1])
    ELSE JsonDumps(items[1]) \o <<", ">> \o DumpItems(Tail(items))

DumpMembers(ms) ==
    IF ms = <<>> THEN <<>>
    ELSE LET one == <<Quote(ms[1].k), ": ">> \o JsonDumps(ms[1].v) IN
         IF Len(ms) = 1 THEN one ELSE one \o <<", ">> \o DumpMembers(Tail(ms))

(***************************************************************************)
(* openai_with_google_search.py                                            *)
(***************************************************************************)
HTTP_OK == 200

\* what a called function did: returned a value or raised an exception
\* an exception: its class, str(e), and the line that raised it
NoExc == [class |-> "", msg |-> <<>>, line |-> 0]
Exc(class, msg, line) == [class |-> class, msg |-> msg, line |-> line]
JReturn(v) == [raised |-> FALSE, value |-> v, exc |-> NoExc]
JRaise(class, msg, line) ==
    [raised |-> TRUE, value |-> JNull, exc |-> Exc(class, msg, line)]

\* the classes raised in a turn; each is a subclass of Exception
ExceptionClasses == {"Exception", "ConnectionError", "JSONDecodeError", "APIError"}

\* a sidecar exchange: the connection failed, or a response came back
ConnectionFailed == [failed |-> TRUE, status |-> 0, text |-> <<>>]
Response(status, text) == [failed |-> FALSE, status |-> status, text |-> text]

ToolsBody == <<"[", "{", "\"name\"", ":", "\"google_search\"", "}", "]">>
ResultBody == <<"{", "\"result\"", ":", "\"r1\"", "}">>
ErrorBody == <<"{", "\"error\"", ":", "\"boom\"", "}">>
GarbageBody == <<"<html>", "boom">>

CatalogResponses ==
    {ConnectionFailed, Response(200, ToolsBody), Response(200, GarbageBody),
     Response(500, ErrorBody), Response(404, GarbageBody)}
RunResponses ==
    {ConnectionFailed, Response(200, ResultBody), Response(200, GarbageBody),
     Response(500, ErrorBody), Response(201, ResultBody)}

\* lines 13-18
get_search_tool_definition(response) ==
    IF response.failed THEN JRaise("ConnectionError", <<"connection refused">>, 15)
    ELSE IF response.status # HTTP_OK
    THEN JRaise("Exception", <<"tool-definition-fetch-failed: ">> \o response.text, 17)
    ELSE LET j == JsonLoads(response.text) IN
         IF j.ok THEN JReturn(j.value)
         ELSE JRaise("JSONDecodeError", <<"Expecting value">>, 18)

\* lines 20-28
run_search_tool(response) ==
    IF response.failed THEN JRaise("ConnectionError", <<"connection refused">>, 22)
    ELSE IF response.status # HTTP_OK
    THEN JRaise("Exception", <<"tool-run-failed: ">> \o response.text, 27)
    ELSE LET j == JsonLoads(response.text) IN
         IF j.ok THEN JReturn(j.value)
         ELSE JRaise("JSONDecodeError", <<"Expecting value">>, 28)

\* the body of the POST of lines 22-25
RunRequest(name, arguments) == [name |-> name, arguments |-> arguments]

\* what the chat API answers
ValidArguments == <<"{", "\"query\"", ":", "\"q\"", "}">>
TruncatedArguments == <<"{", "\"query\"", ":">>
ToolCalls ==
    [id : {"call_1", "call_2"},
     function : [name : {"google_search"},
                 arguments : {ValidArguments, TruncatedArguments}]]
\* message.tool_calls; the empty list stands for None and for []
ToolCallLists == UNION {[1..n -> ToolCalls] : n \in 0..MaxToolCalls}
NoMessage == [failed |-> TRUE, content |-> None, tool_calls |-> <<>>]
FirstAnswers ==
    {NoMessage} \cup
    [failed : {FALSE}, content : {None, <<"answer">>}, tool_calls : ToolCallLists]
SecondAnswers ==
    {NoMessage} \cup
    [failed : {FALSE}, content : {None, <<"final">>}, tool_calls : {<<>>}]

SystemMessage == [role |-> "system", content |-> <<"system-prompt">>]
UserMessage(text) == [role |-> "user", content |-> text]

\* lines 38-44: the transcript of the first call
FirstTranscript(user_message) == <<SystemMessage, UserMessage(user_message)>>

\* lines 57-64
ToolTranscript(user_message, m) ==
    <<SystemMessage, UserMessage(user_message),
      [role |-> "assistant", content |-> None, tool_calls |-> m.tool_calls]>>

ToolMessage_wrong_id(all_calls, tool_call, function_response) ==
    [role |-> "tool", tool_call_id |-> all_calls[1].id,
     content |-> JsonDumps(function_response)]

ToolMessage_wrong_role(all_calls, tool_call, function_response) ==
    [role |-> "assistant", tool_call_id |-> tool_call.id,
     content |-> JsonDumps(function_response)]

\* lines 75-79: the message appended for tool_call, one of all_calls
ToolMessage(all_calls, tool_call, function_response) ==
    [role |-> "tool", tool_call_id |-> tool_call.id,
     content |-> JsonDumps(function_response)]

\* the arguments of client.chat.completions.create
ChatRequest(msgs, offered, tool_list) ==
    [messages |-> msgs, offered |-> offered, tools |-> tool_list]

NoToolCalls_never(m) == FALSE

\* line 53
NoToolCalls(m) == Len(m.tool_calls) = 0

NextToolCall_same(k) == k

\* line 67: the for loop goes on to the next tool call
NextToolCall(k) == k + 1

\* line 97
is_exit(line) ==
    Lower(line) \in {<<"e", "x", "i", "t">>, <<"q", "u", "i", "t">>}

Caught_only_plain(exc) == exc.class = "Exception"

\* line 104: except Exception
Caught(exc) == exc.class \in ExceptionClasses

NoResult == [kind |-> "none", value |-> None, exc |-> NoExc]
Returned(v) == [kind |-> "return", value |-> v, exc |-> NoExc]
Raised(exc) == [kind |-> "raise", value |-> None, exc |-> exc]

\* lines 102-103 and 105: what main prints for a turn
Printed(res) ==
    IF res.kind = "return" THEN <<"response-label">> \o Str(res.value)
    ELSE IF res.kind = "raise" THEN <<"error-label">> \o res.exc.msg
    ELSE <<>>

\* lines 100-105: chat_with_tools returned or raised, main prints and loops
EndTurn(res) ==
    /\ result' = res
    /\ printed' = Printed(res)
    /\ pc' = IF res.kind = "raise" /\ ~Caught(res.exc) THEN "crashed" ELSE "input"

InputLines ==
    {<<"e", "x", "i", "t">>, <<"E", "x", "I", "T">>, <<"Q", "U", "I", "T">>,
     <<"e", "x", "i", "t", " ">>, <<"h", "i">>, <<>>}

\* lines 96-101 and 33: a line is read; the loop ends, or chat_with_tools
\* starts and requests the tool definitions
main_input(line) ==
    /\ pc = "input"
    /\ user_input' = line
    /\ tools' = JNull
    /\ message' = NoMessage
    /\ messages' = <<>>
    /\ idx' = 0
    /\ result' = NoResult
    /\ printed' = <<>>
    /\ second_response' = NoMessage
    /\ chatLog' = <<>>
    /\ runLog' = <<>>
    /\ lastSidecar' = ConnectionFailed
    /\ IF is_exit(line)
       THEN pc' = "exited" /\ catalogReqs' = 0 /\ inflight' = 0
       ELSE pc' = "catalog" /\ catalogReqs' = 1 /\ inflight' = inflight + 1
    /\ UNCHANGED <<uiVars, settingsVars>>

\* lines 15-18 and 36-47: the tool definitions arrive, the first chat call is made
catalog_response(response) ==
    /\ pc = "catalog"
    /\ lastSidecar' = response
    /\ LET r == get_search_tool_definition(response) IN
       IF r.raised
       THEN /\ EndTurn(Raised(r.exc))
            /\ inflight' = inflight - 1
            /\ UNCHANGED <<tools, chatLog>>
       ELSE /\ tools' = r.value
            /\ chatLog' = Append(chatLog,
                                 ChatRequest(FirstTranscript(user_input), TRUE, r.value))
            /\ pc' = "chat1"
            /\ inflight' = (inflight - 1) + 1
            /\ UNCHANGED <<result, printed>>
    /\ UNCHANGED <<user_input, message, messages, idx, second_response, runLog,
                   catalogReqs>>
    /\ UNCHANGED <<uiVars, settingsVars>>

\* lines 67-72 and 82-85: the head of the for loop at tool call k, with the
\* transcript msgs; n requests are in flight.  The loop is over and the
\* second chat call is made, or the arguments are decoded and the tool is run.
LoopHead(m, msgs, k, n) ==
    /\ messages' = msgs
    /\ idx' = k
    /\ IF k > Len(m.tool_calls)
       THEN /\ chatLog' = Append(chatLog, ChatRequest(msgs, FALSE, JNull))
            /\ pc' = "chat2"
            /\ inflight' = n + 1
            /\ UNCHANGED <<runLog, result, printed>>
       ELSE LET function_args == JsonLoads(m.tool_calls[k].function.arguments) IN
            IF ~function_args.ok
            THEN /\ EndTurn(Raised(Exc("JSONDecodeError", <<"Expecting value">>, 69)))
                 /\ inflight' = n
                 /\ UNCHANGED <<chatLog, runLog>>
            ELSE /\ runLog' = Append(runLog,
                                     RunRequest(m.tool_calls[k].function.name,
                                                function_args.value))
                 /\ pc' = "tool"
                 /\ inflight' = n + 1
                 /\ UNCHANGED <<chatLog, result, printed>>

\* lines 50-64: the first answer arrives
chat1_response(answer) ==
    /\ pc = "chat1"
    /\ IF answer.failed
       THEN /\ EndTurn(Raised(Exc("APIError", <<"chat api error">>, 36)))
            /\ inflight' = inflight - 1
            /\ UNCHANGED <<message, messages, idx, chatLog, runLog>>
       ELSE /\ message' = answer
            /\ IF NoToolCalls(answer)
               THEN /\ EndTurn(Returned(answer.content))
                    /\ inflight' = inflight - 1
                    /\ UNCHANGED <<messages, idx, chatLog, runLog>>
               ELSE LoopHead(answer, ToolTranscript(user_input, answer), 1, inflight - 1)
    /\ UNCHANGED <<user_input, tools, second_response, catalogReqs, lastSidecar>>
    /\ UNCHANGED <<uiVars, settingsVars>>

\* lines 26-28 and 75-79: the tool's result arrives and is appended
tool_response(response) ==
    /\ pc = "tool"
    /\ lastSidecar' = response
    /\ LET r == run_search_tool(response) IN
       IF r.raised
       THEN /\ EndTurn(Raised(r.exc))
            /\ inflight' = inflight - 1
            /\ UNCHANGED <<messages, idx, chatLog, runLog>>
       ELSE LoopHead(message,
                     Append(messages,
                            ToolMessage(message.tool_calls, message.tool_calls[idx], r.value)),
                     NextToolCall(idx), inflight - 1)
    /\ UNCHANGED <<user_input, tools, message, second_response, catalogReqs>>
    /\ UNCHANGED <<uiVars, settingsVars>>

\* line 87: the second answer arrives
chat2_response(answer) ==
    /\ pc = "chat2"
    /\ second_response' = answer
    /\ IF answer.failed
       THEN EndTurn(Raised(Exc("APIError", <<"chat api error">>, 82)))
       ELSE EndTurn(Returned(answer.content))
    /\ inflight' = inflight - 1
    /\ UNCHANGED <<user_input, tools, message, messages, idx, chatLog, runLog,
                   catalogReqs, lastSidecar>>
    /\ UNCHANGED <<uiVars, settingsVars>>

InitCLI ==
    /\ pc = "input"
    /\ user_input = <<>>
    /\ tools = JNull
    /\ message = NoMessage
    /\ messages = <<>>
    /\ idx = 0
    /\ result = NoResult
    /\ printed = <<>>
    /\ second_response = NoMessage
    /\ chatLog = <<>>
    /\ runLog = <<>>
    /\ catalogReqs = 0
    /\ inflight = 0
    /\ lastSidecar = ConnectionFailed

NextCLI ==
    \/ \E line \in InputLines : main_input(line)
    \/ \E response \in CatalogResponses : catalog_response(response)
    \/ \E answer \in FirstAnswers : chat1_response(answer)
    \/ \E response \in RunResponses : tool_response(response)
    \/ \E answer \in SecondAnswers : chat2_response(answer)

(***************************************************************************)
(* prac.py: the chat input                                                 *)
(***************************************************************************)
\* Python's truth value of a JSON value
Truthy(v) ==
    CASE v.t = "null" -> FALSE
      [] v.t = "bool" -> v.b
      [] v.t = "string" -> v.s # ""
      [] v.t = "array" -> v.items # <<>>
      [] v.t = "object" -> v.members # <<>>

HasKey(obj, key) == \E i \in 1..Len(obj.members) : obj.members[i].k = key

\* obj[key] of a dict that has the key: the last member of that name
GetKey(obj, key) ==
    obj.members[CHOOSE i \in 1..Len(obj.members) :
                    /\ obj.members[i].k = key
                    /\ \A j \in (i + 1)..Len(obj.members) : obj.members[j].k # key].v

\* the exception of result["content"][0]["text"], or "" when it evaluates
ContentTextError(res) ==
    IF res.t # "object" THEN "TypeError"
    ELSE IF ~HasKey(res, "content") THEN "'content'"
    ELSE LET c == GetKey(res, "content") IN
         IF c.t \notin {"array", "object"} THEN "TypeError"
         ELSE IF c.t = "object" THEN "0"
         ELSE IF c.items = <<>> THEN "list index out of range"
         ELSE IF c.items[1].t # "object" THEN "TypeError"
         ELSE IF ~HasKey(c.items[1], "text") THEN "'text'"
         ELSE ""

\* result["content"][0]["text"] where it evaluates, as text
ContentText(res) ==
    LET v == GetKey(GetKey(res, "content").items[1], "text") IN
    IF v.t = "string" THEN <<v.s>> ELSE JsonDumps(v)

\* response.raise_for_status() raises
IsHTTPError(status) == status >= 400 /\ status < 600

\* str(HTTPError) of raise_for_status
HTTPErrorText(status) ==
    <<ToString(status), IF status < 500 THEN " Client Error: " ELSE " Server Error: ",
      "reason", " for url: ", "http://localhost:3000/tools/call">>

\* lines 30-49: what google_search_mcp returns when the sidecar answers response
google_search_mcp(response) ==
    IF response.failed THEN <<"Error: ", "connection refused">>
    ELSE IF IsHTTPError(response.status)
    THEN <<"Error: ">> \o HTTPErrorText(response.status)
    ELSE LET j == JsonLoads(response.text) IN
         IF ~j.ok THEN <<"Error: ", "Expecting value">>
         ELSE IF j.value.t # "object" THEN <<"Error: ", "AttributeError">>
         ELSE IF ContentTextError(j.value) # ""
         THEN <<"Error: ", ContentTextError(j.value)>>
         ELSE IF HasKey(j.value, "isError") /\ Truthy(GetKey(j.value, "isError"))
         THEN <<"Error: ">> \o ContentText(j.value)
         ELSE ContentText(j.value)

\* lines 51-60
chat_message_llm(answer) ==
    IF answer.failed THEN <<"Error: ", "chat api error">> ELSE answer.content

SearchPrefix == <<"s", "e", "a", "r", "c", "h", ":">>
PrefixLen == 7

is_search_case_sensitive(prompt) == StartsWith(prompt, SearchPrefix)

\* line 95
is_search(prompt) == StartsWith(Lower(prompt), SearchPrefix)

search_query_unstripped(prompt) == SliceFrom(prompt, PrefixLen)

\* line 96
search_query(prompt) == Strip(SliceFrom(prompt, PrefixLen))

ui_append_replace(list, role, content) == <<[role |-> role, content |-> content]>>

\* lines 91, 98, 104: st.session_state.messages.append
ui_append(list, role, content) == Append(list, [role |-> role, content |-> content])

OkBody ==
    <<"{", "\"content\"", ":", "[", "{", "\"text\"", ":", "\"r1\"", "}", "]", "}">>
NotErrorBody ==
    <<"{", "\"isError\"", ":", "false", ",", "\"content\"", ":", "[", "{", "\"text\"",
      ":", "\"r1\"", "}", "]", "}">>
IsErrorBody ==
    <<"{", "\"isError\"", ":", "true", ",", "\"content\"", ":", "[", "{", "\"text\"",
      ":", "\"boom\"", "}", "]", "}">>
EmptyContentBody == <<"{", "\"content\"", ":", "[", "]", "}">>

UIResponses ==
    {ConnectionFailed, Response(200, OkBody), Response(200, NotErrorBody),
     Response(200, IsErrorBody), Response(200, EmptyContentBody),
     Response(200, GarbageBody), Response(201, OkBody), Response(404, GarbageBody),
     Response(500, IsErrorBody)}

UIAnswers ==
    {NoMessage} \cup [failed : {FALSE}, content : {None, <<"answer">>}, tool_calls : {<<>>}]

Prompts ==
    {<<"s", "e", "a", "r", "c", "h", ":", "q">>,
     <<"S", "E", "A", "R", "C", "H", ":", " ", "q", " ">>,
     <<"S", "e", "a", "r", "c", "h", ":">>,
     <<"s", "e", "a", "r", "c", "h", " ", "q">>,
     <<" ", "s", "e", "a", "r", "c", "h", ":", "q">>,
     <<"h", "i">>}

\* lines 89-99: a prompt with the search prefix is submitted and handled
search_prompt(prompt, response) ==
    /\ Len(ui_messages) < 2 * MaxPrompts
    /\ is_search(prompt)
    /\ ui_prompt' = prompt
    /\ ui_query' = <<search_query(prompt)>>
    /\ ui_chat' = <<>>
    /\ ui_response' = response
    /\ ui_answer' = NoMessage
    /\ ui_messages' = ui_append(ui_append(ui_messages, "user", prompt),
                                "assistant", google_search_mcp(response))
    /\ UNCHANGED <<cliVars, settingsVars>>

\* lines 89-93 and 100-105: any other prompt is submitted and handled
chat_prompt(prompt, answer) ==
    /\ Len(ui_messages) < 2 * MaxPrompts
    /\ ~is_search(prompt)
    /\ ui_prompt' = prompt
    /\ ui_query' = <<>>
    /\ ui_chat' = <<ui_append(ui_messages, "user", prompt)>>
    /\ ui_response' = ConnectionFailed
    /\ ui_answer' = answer
    /\ ui_messages' = ui_append(ui_append(ui_messages, "user", prompt),
                                "assistant", chat_message_llm(answer))
    /\ UNCHANGED <<cliVars, settingsVars>>

InitUI ==
    /\ ui_messages = <<>>
    /\ ui_prompt = <<>>
    /\ ui_query = <<>>
    /\ ui_chat = <<>>
    /\ ui_response = ConnectionFailed
    /\ ui_answer = NoMessage

NextUI ==
    \/ \E prompt \in Prompts, response \in UIResponses : search_prompt(prompt, response)
    \/ \E prompt \in Prompts, answer \in UIAnswers : chat_prompt(prompt, answer)

(***************************************************************************)
(* prac.py: the settings sidebar.  Streamlit runs the script of each       *)
(* browser session in a thread of its own; os.environ belongs to the       *)
(* process.                                                                *)
(***************************************************************************)
NulValue == "k<NUL>"
EnvDefault == "k0"
Values == {"k1", "k2", NulValue}

\* os.environ[name] = v raises ValueError (embedded null byte)
EmbeddedNul(v) == v = NulValue

Credentials(a, b, c) == [google_api_key |-> a, google_cse_id |-> b, openai_api_key |-> c]
Environment(a, b, c) == [GOOGLE_API_KEY |-> a, GOOGLE_CSE_ID |-> b, OPENAI_API_KEY |-> c]

NotStarted == [started |-> FALSE, state |-> Credentials("", "", "")]

\* lines 19-24: a new session takes its three fields from the environment
init_session_state(env) ==
    Credentials(env.GOOGLE_API_KEY, env.GOOGLE_CSE_ID, env.OPENAI_API_KEY)

\* lines 71-75: Save Settings is clicked with three values in the inputs
click_save(a, b, c) ==
    /\ savePc = 0
    /\ saves < MaxSaves
    /\ entered' = Credentials(a, b, c)
    /\ savePc' = 1
    /\ saves' = saves + 1
    /\ UNCHANGED <<session, environ, session2, generations>>
    /\ UNCHANGED <<cliVars, uiVars>>

\* lines 76-78: one assignment to st.session_state
save_session_field ==
    /\ savePc \in 1..3
    /\ session' = CASE savePc = 1 -> [session EXCEPT !.google_api_key = entered.google_api_key]
                    [] savePc = 2 -> [session EXCEPT !.google_cse_id = entered.google_cse_id]
                    [] savePc = 3 -> [session EXCEPT !.openai_api_key = entered.openai_api_key]
    /\ savePc' = savePc + 1
    /\ UNCHANGED <<environ, entered, saves, session2, generations>>
    /\ UNCHANGED <<cliVars, uiVars>>

\* lines 79-81: one assignment to os.environ; it raises on an embedded null
\* byte, which ends the script run; after line 81 the save is complete
save_environ_field ==
    /\ savePc \in 4..6
    /\ LET v == CASE savePc = 4 -> entered.google_api_key
                  [] savePc = 5 -> entered.google_cse_id
                  [] savePc = 6 -> entered.openai_api_key
       IN IF EmbeddedNul(v)
          THEN savePc' = 0 /\ UNCHANGED <<environ, generations>>
          ELSE /\ environ' =
                     CASE savePc = 4 -> [environ EXCEPT !.GOOGLE_API_KEY = v]
                       [] savePc = 5 -> [environ EXCEPT !.GOOGLE_CSE_ID = v]
                       [] savePc = 6 -> [environ EXCEPT !.OPENAI_API_KEY = v]
               /\ savePc' = IF savePc = 6 THEN 0 ELSE savePc + 1
               /\ generations' = IF savePc = 6 THEN generations \cup {entered}
                                 ELSE generations
    /\ UNCHANGED <<session, entered, saves, session2>>
    /\ UNCHANGED <<cliVars, uiVars>>

\* lines 16-24: a second browser session starts and runs init_session_state
open_session2 ==
    /\ ~session2.started
    /\ session2' = [started |-> TRUE, state |-> init_session_state(environ)]
    /\ UNCHANGED <<session, environ, entered, savePc, saves, generations>>
    /\ UNCHANGED <<cliVars, uiVars>>

InitSettings ==
    /\ environ = Environment(EnvDefault, EnvDefault, EnvDefault)
    /\ session = init_session_state(environ)
    /\ entered = session
    /\ savePc = 0
    /\ saves = 0
    /\ session2 = NotStarted
    /\ generations = {session}

NextSettings ==
    \/ \E a, b, c \in Values : click_save(a, b, c)
    \/ save_session_field
    \/ save_environ_field
    \/ open_session2

Init == InitCLI /\ InitUI /\ InitSettings

SpecCLI == Init /\ [][NextCLI]_vars
SpecUI == Init /\ [][NextUI]_vars
SpecSettings == Init /\ [][NextSettings]_vars

(***************************************************************************)
(* Claims about openai_with_google_search.py, checked under SpecCLI        *)
(***************************************************************************)
ExitWords == {<<"e", "x", "i", "t">>, <<"q", "u", "i", "t">>}

\* the first answer of the turn has arrived and carries n tool calls
FirstAnswerHas(n) == ~message.failed /\ Len(message.tool_calls) = n

\* an HTTP call of the turn failed (every raise but that of json.loads, line 69)
ExternalCallFailed == result.kind = "raise" /\ result.exc.line # 69

\* C1: when the first chat answer carries no tool calls, the turn makes exactly
\* one chat-API call and no tool invocation, and returns that answer's content.
C1_NoToolCallsOneRoundTrip ==
    FirstAnswerHas(0) =>
        /\ Len(chatLog) = 1
        /\ runLog = <<>>
        /\ pc = "input"
        /\ result.kind = "return"
        /\ result.value = message.content

C1_Witness ==
    /\ FirstAnswerHas(0)
    /\ message.content = <<"answer">>
    /\ result.kind = "return"
    /\ Len(chatLog) = 1

\* the transcript the code is to send after one tool call answered by the sidecar
C2_ExpectedTranscript ==
    <<[role |-> "system", content |-> <<"system-prompt">>],
      [role |-> "user", content |-> user_input],
      [role |-> "assistant", content |-> None, tool_calls |-> message.tool_calls],
      [role |-> "tool", tool_call_id |-> message.tool_calls[1].id,
       content |-> JsonDumps(JsonLoads(lastSidecar.text).value)]>>

C2_OneToolRound ==
    /\ Len(runLog) = 1
    /\ Len(chatLog) = 2
    /\ chatLog[2].messages = C2_ExpectedTranscript
    /\ ~second_response.failed
    /\ result.kind = "return"
    /\ result.value = second_response.content

\* C2 as stated: a finished turn whose first answer carries exactly one tool
\* call, and in which no external call failed, ran the tool once, called the
\* chat API a second time with system, user, assistant(tool_calls), tool(result),
\* and returned the second answer's content.
C2_AsStated ==
    (pc = "input" /\ FirstAnswerHas(1) /\ ~ExternalCallFailed) => C2_OneToolRound

\* C2 amended: the same, when moreover the tool call's arguments are valid JSON.
C2_OneToolCall ==
    (/\ pc = "input"
     /\ FirstAnswerHas(1)
     /\ ~ExternalCallFailed
     /\ JsonLoads(message.tool_calls[1].function.arguments).ok) => C2_OneToolRound

C2_Witness ==
    /\ pc = "input"
    /\ FirstAnswerHas(1)
    /\ Len(runLog) = 1
    /\ Len(chatLog) = 2
    /\ result.kind = "return"
    /\ result.value = <<"final">>

\* C6: the loop ends exactly on a line that is "exit" or "quit" in any case, and
\* then the orchestrator was not called; an exception of a turn is printed
\* and the loop reads the next line: no failure ends the loop.
C6_LoopSurvivesFailures ==
    /\ pc # "crashed"
    /\ pc = "exited" => /\ Lower(user_input) \in ExitWords
                        /\ catalogReqs = 0 /\ chatLog = <<>> /\ runLog = <<>>
    /\ catalogReqs > 0 => Lower(user_input) \notin ExitWords
    /\ result.kind = "raise" =>
           /\ pc = "input"
           /\ printed = <<"error-label">> \o result.exc.msg

C6_Witness ==
    /\ pc = "input"
    /\ result.kind = "raise"
    /\ result.exc.class = "JSONDecodeError"
    /\ result.exc.line = 69

\* C7: in every transcript sent to the chat API, each tool message answers, by
\* its tool_call_id and in order, an entry of the tool_calls of the assistant
\* message that precedes it.
C7_ToolMessagesMatchCalls ==
    \A c \in 1..Len(chatLog) :
        LET T == chatLog[c].messages IN
        \A j \in 1..Len(T) :
            T[j].role = "tool" =>
                \E a \in 1..(j - 1) :
                    /\ T[a].role = "assistant"
                    /\ \A b \in (a + 1)..j : T[b].role = "tool"
                    /\ j - a <= Len(T[a].tool_calls)
                    /\ T[j].tool_call_id = T[a].tool_calls[j - a].id

C7_Witness ==
    /\ Len(chatLog) = 2
    /\ Len(chatLog[2].messages) = 5
    /\ chatLog[2].messages[4].role = "tool"
    /\ chatLog[2].messages[5].role = "tool"
    /\ chatLog[2].messages[4].tool_call_id # chatLog[2].messages[5].tool_call_id

\* C9 as stated: a turn makes at most two chat-API calls and at most two
\* requests to the sidecar, one at a time.
C9_AsStated ==
    /\ Len(chatLog) <= 2
    /\ catalogReqs + Len(runLog) <= 2
    /\ inflight <= 1

\* C9 amended: a turn makes at most two chat-API calls and at most one request
\* to the sidecar for the tool definitions plus one for each tool call of the
\* first answer, one at a time.
C9_BoundedCalls ==
    /\ Len(chatLog) <= 2
    /\ catalogReqs <= 1
    /\ Len(runLog) <= Len(message.tool_calls)
    /\ inflight <= 1

C9_Witness ==
    /\ pc = "input"
    /\ Len(chatLog) = 2
    /\ catalogReqs = 1
    /\ Len(runLog) = 2

(***************************************************************************)
(* Claims about prac.py, checked under SpecUI and SpecSettings             *)
(***************************************************************************)
\* the last script run handled a prompt that starts with "search:" in any case
SearchPromptHandled ==
    /\ Len(ui_prompt) >= 7
    /\ \A i \in 1..7 : LowerChar(ui_prompt[i]) = SearchPrefix[i]

ChatPromptHandled == ui_prompt # <<>> /\ ~SearchPromptHandled

\* the assistant message appended by the last script run
LastOutput == ui_messages[Len(ui_messages)].content

\* C3: handling a prompt that starts with "search:" in any case never calls
\* the chat-completion API, whatever the sidecar answers or when it fails.
C3_SearchNeverCallsChat == SearchPromptHandled => ui_chat = <<>>

C3_Witness ==
    /\ ui_prompt = <<"S", "E", "A", "R", "C", "H", ":", " ", "q", " ">>
    /\ ui_response.failed
    /\ ui_chat = <<>>
    /\ Len(ui_query) = 1
    /\ LastOutput = <<"Error: ", "connection refused">>

\* C4 as stated: a search prompt makes exactly one sidecar call whose query is
\* the remainder of the prompt after the prefix, and the assistant output is
\* content[0].text of the sidecar's JSON response.
C4_AsStated ==
    SearchPromptHandled =>
        /\ Len(ui_query) = 1
        /\ ui_query[1] = SliceFrom(ui_prompt, 7)
        /\ JsonLoads(ui_response.text).ok
        /\ ContentTextError(JsonLoads(ui_response.text).value) = ""
        /\ LastOutput = ContentText(JsonLoads(ui_response.text).value)

\* C4 amended: a search prompt makes exactly one sidecar call whose query is the
\* remainder of the prompt after the prefix with the whitespace at both ends
\* stripped; the assistant output is content[0].text of the sidecar's JSON
\* response when the sidecar answers with a status below 400 and a JSON object
\* whose isError is absent or false; it is "Error: " followed by that text
\* when isError is true, and "Error: " followed by the exception's text when
\* the call fails or the response has no content[0].text.
C4_SearchTurn ==
    SearchPromptHandled =>
        /\ Len(ui_query) = 1
        /\ ui_query[1] = Strip(SliceFrom(ui_prompt, 7))
        /\ LET j == JsonLoads(ui_response.text)
               answered == /\ ~ui_response.failed
                           /\ ui_response.status < 400
                           /\ j.ok
                           /\ ContentTextError(j.value) = ""
               flagged == HasKey(j.value, "isError") /\ Truthy(GetKey(j.value, "isError"))
           IN IF answered /\ ~flagged THEN LastOutput = ContentText(j.value)
              ELSE IF answered THEN LastOutput = <<"Error: ">> \o ContentText(j.value)
              ELSE Len(LastOutput) >= 2 /\ LastOutput[1] = "Error: "

C4_Witness ==
    /\ ui_prompt = <<"S", "E", "A", "R", "C", "H", ":", " ", "q", " ">>
    /\ ui_query = << <<"q">> >>
    /\ ui_response = Response(200, NotErrorBody)
    /\ LastOutput = <<"r1">>

NonSuccess(status) == status < 200 \/ status >= 300

\* C5 (the functions of the command-line script): a response with a status
\* other than success makes them raise an exception whose text holds the body.
C5_CLIFunctionsCarryBody ==
    (~lastSidecar.failed /\ NonSuccess(lastSidecar.status)) =>
        /\ result.kind = "raise"
        /\ Contains(result.exc.msg, lastSidecar.text)

\* C5: for a sidecar response with a non-success status, the catalog function
\* and the tool-invoke functions raise or return an error that carries the
\* response body verbatim, and return no decoded result.
C5_AsStated ==
    /\ C5_CLIFunctionsCarryBody
    /\ (SearchPromptHandled /\ ~ui_response.failed /\ NonSuccess(ui_response.status)) =>
           /\ LastOutput[1] = "Error: "
           /\ Contains(LastOutput, ui_response.text)

\* C8: a save overwrites the three session fields and the three environment
\* variables with the entered values, and no reader sees some of the six
\* values new and the others old: between script runs the session and the
\* environment hold the entered values, and a session that starts reads
\* from the environment three values that were saved together.
C8_AsStated ==
    /\ (savePc = 0 /\ saves > 0) =>
           /\ session = entered
           /\ init_session_state(environ) = entered
    /\ session2.started => session2.state \in generations

\* C10: every handled prompt appends exactly the user message and then one
\* assistant message to the transcript and leaves the earlier messages as
\* they were, also when the sidecar or the chat API fails, the assistant
\* message then being the error text; so the transcript alternates user,
\* assistant and has even length between turns.
C10_AppendOnly ==
    /\ [](/\ Len(ui_messages) % 2 = 0
          /\ \A i \in 1..Len(ui_messages) :
                 ui_messages[i].role = IF i % 2 = 1 THEN "user" ELSE "assistant"
          /\ (SearchPromptHandled /\ (ui_response.failed \/ ui_response.status >= 400)) =>
                 LastOutput[1] = "Error: "
          /\ (ChatPromptHandled /\ ui_answer.failed) => LastOutput[1] = "Error: ")
    /\ [][/\ Len(ui_messages') = Len(ui_messages) + 2
          /\ SubSeq(ui_messages', 1, Len(ui_messages)) = ui_messages
          /\ ui_messages'[Len(ui_messages) + 1] = [role |-> "user", content |-> ui_prompt']
          /\ ui_messages'[Len(ui_messages) + 2].role = "assistant"]_uiVars

C10_Witness ==
    /\ Len(ui_messages) = 4
    /\ ui_messages[2].content = <<"Error: ", "chat api error">>
    /\ ui_messages[3].content = <<"s", "e", "a", "r", "c", "h", ":", "q">>
    /\ ui_messages[4].content[1] = "Error: "
    /\ ui_response.failed

====
